---- MODULE Spec2Model ----
(***************************************************************************)
(* The two lookup tools of flight_search_agent (get_flight_prices and      *)
(* get_airport_code), the date validator they use, and the session state   *)
(* (tool_context.state) they read and write.                               *)
(*                                                                         *)
(* Python values are represented as follows.                               *)
(*   str       a sequence of one-character strings, so that len(), the     *)
(*             regular expression, isalpha() and truthiness are computed;  *)
(*             city names, which the code only stores and interpolates,    *)
(*             are atomic strings.                                         *)
(*   None      the value None below, which is no sequence of characters.   *)
(*   dict      a function whose domain is the set of keys present.         *)
(*   JSON      a value tagged with its type: JObj, JArr, JStr, JNull.      *)
(***************************************************************************)
EXTENDS Integers, Sequences, FiniteSets, TLC

VARIABLES
    serp_api_key,   \* module-level SERP_API_KEY read from the environment at import
    state,          \* tool_context.state: the session's key-value store
    trace           \* history: every tool invocation so far, oldest first

vars == <<serp_api_key, state, trace>>

\* Number of tool invocations explored in one session.
MaxCalls == 2

None == <<"None">>

----------------------------------------------------------------------------
(* Strings *)

Digits == {"0", "1", "2", "3", "4", "5", "6", "7", "8", "9"}

UpperLetters == <<"A", "B", "C", "D", "E", "F", "G", "H", "I", "J", "K", "L", "M",
                 "N", "O", "P", "Q", "R", "S", "T", "U", "V", "W", "X", "Y", "Z">>

LowerLetters == <<"a", "b", "c", "d", "e", "f", "g", "h", "i", "j", "k", "l", "m",
                 "n", "o", "p", "q", "r", "s", "t", "u", "v", "w", "x", "y", "z">>

UpperCase == {UpperLetters[i] : i \in DOMAIN UpperLetters}
LowerCase == {LowerLetters[i] : i \in DOMAIN LowerLetters}

\* str.upper()
Upper(s) ==
    [i \in 1..Len(s) |->
        IF s[i] \in LowerCase
        THEN UpperLetters[CHOOSE k \in DOMAIN LowerLetters : LowerLetters[k] = s[i]]
        ELSE s[i]]

DigitValue(c) ==
    CASE c = "0" -> 0 [] c = "1" -> 1 [] c = "2" -> 2 [] c = "3" -> 3
      [] c = "4" -> 4 [] c = "5" -> 5 [] c = "6" -> 6 [] c = "7" -> 7
      [] c = "8" -> 8 [] c = "9" -> 9

\* int() of a run of digits s[from..to]
RECURSIVE Number(_, _, _)
Number(s, from, to) ==
    IF to < from THEN 0
    ELSE 10 * Number(s, from, to - 1) + DigitValue(s[to])

\* a Python value used as a condition: None and the empty string are false
Truthy(v) == v # None /\ v # <<>>

----------------------------------------------------------------------------
(* utils/validate_date_format.py *)

\* re.match(r'^\d{4}-\d{2}-\d{2}$', date_str); `$` also matches just before
\* a newline that ends the string
MatchesPattern(date_str) ==
    /\ \/ Len(date_str) = 10
       \/ Len(date_str) = 11 /\ date_str[11] = "\n"
    /\ \A i \in {1, 2, 3, 4, 6, 7, 9, 10} : date_str[i] \in Digits
    /\ date_str[5] = "-"
    /\ date_str[8] = "-"

IsLeapYear(y) == (y % 4 = 0 /\ y % 100 # 0) \/ y % 400 = 0

DaysInMonth(y, m) ==
    IF m = 2 THEN (IF IsLeapYear(y) THEN 29 ELSE 28)
    ELSE IF m \in {4, 6, 9, 11} THEN 30 ELSE 31

\* datetime.strptime(date_str, '%Y-%m-%d') returns without ValueError: the
\* whole string is consumed and year, month and day denote a calendar date
StrptimeParses(date_str) ==
    /\ Len(date_str) = 10
    /\ LET y == Number(date_str, 1, 4)
           m == Number(date_str, 6, 7)
           d == Number(date_str, 9, 10)
       IN  /\ y >= 1
           /\ m >= 1 /\ m <= 12
           /\ d >= 1 /\ d <= DaysInMonth(y, m)

\* re.match raises TypeError when date_str is not a string
ValidateRaises(date_str) == date_str = None

validate_date_format(date_str) ==
    IF ~MatchesPattern(date_str) THEN FALSE
    ELSE StrptimeParses(date_str)

----------------------------------------------------------------------------
(* JSON values and Python containers *)

JObj(f) == [t |-> "object", fields |-> f]
JArr(s) == [t |-> "array", items |-> s]
JStr(s) == [t |-> "string", text |-> s]
JNull == [t |-> "null"]    \* JSON null, and None where a JSON value may stand

EmptyDict == [k \in {} |-> JNull]

\* `key in data`: a key of a mapping, an element of a list
PyIn(key, data) ==
    CASE data.t = "object" -> key \in DOMAIN data.fields
      [] data.t = "array" -> \E i \in DOMAIN data.items : data.items[i] = JStr(key)

\* data.get(key, default) is defined on mappings only
HasGet(data) == data.t = "object"

JGet(data, key, default) ==
    IF key \in DOMAIN data.fields THEN data.fields[key] ELSE default

\* a JSON value used as a condition
JTruthy(j) ==
    CASE j.t = "object" -> DOMAIN j.fields # {}
      [] j.t = "array" -> Len(j.items) > 0
      [] j.t = "string" -> j.text # ""
      [] j.t = "null" -> FALSE

\* s[:n]
Take(s, n) == SubSeq(s, 1, IF Len(s) < n THEN Len(s) ELSE n)

\* tool_context.state.get(key, default)
Get(st, key, default) == IF key \in DOMAIN st THEN st[key] ELSE default

\* tool_context.state[key] = value
Put(st, key, value) ==
    [k \in DOMAIN st \cup {key} |-> IF k = key THEN value ELSE st[k]]

Returned(result) == [kind |-> "returned", result |-> result]
Raised(exception) == [kind |-> "raised", exception |-> exception]

\* what one invocation does: the state it leaves, how it ends, and the
\* number of HTTP requests it issued
Effect(st, outcome, requests) ==
    [state |-> st, outcome |-> outcome, requests |-> requests]

\* what the upstream service answers to one request
Timeout == [kind |-> "timeout"]
ConnectionError == [kind |-> "connection_error"]
Response(status_code, body) ==
    [kind |-> "response", status_code |-> status_code, body |-> body]
NotJSON == [json |-> FALSE]
Body(data) == [json |-> TRUE, data |-> data]

\* the check written as `if serp_api_key is None`: an empty key passes
KeyMissing_OnlyNone(key) == key = None

\* `if not serp_api_key`
KeyMissing(key) == ~Truthy(key)

MissingKey ==
    [status |-> "error",
     error_message |-> [text |-> "SERP_API_KEY not found in environment variables."]]

----------------------------------------------------------------------------
(* tools/get_airport_code.py *)

OrganicLimit == 3

\* the organic results preferred to the knowledge graph
AirportDetails_OrganicFirst(data, city_name) ==
    IF PyIn("organic_results", data) THEN
        IF data.t # "object" \/ data.fields["organic_results"].t # "array"
        THEN Raised("TypeError")
        ELSE Returned([status |-> "success",
                       search_results |->
                           Take(data.fields["organic_results"].items, OrganicLimit)])
    ELSE IF PyIn("knowledge_graph", data) THEN
        IF data.t # "object" THEN Raised("TypeError")
        ELSE Returned([status |-> "success",
                       airport_details |-> data.fields["knowledge_graph"]])
    ELSE Returned([status |-> "error",
                   error_message |-> [text |-> "Could not find airport code for",
                                      city_name |-> city_name]])

\* lines 53-75: the result chosen for a parsed response
AirportDetails(data, city_name) ==
    IF PyIn("knowledge_graph", data) THEN
        IF data.t # "object" THEN Raised("TypeError")
        ELSE Returned([status |-> "success",
                       airport_details |-> data.fields["knowledge_graph"]])
    ELSE IF PyIn("organic_results", data) THEN
        IF data.t # "object" \/ data.fields["organic_results"].t # "array"
        THEN Raised("TypeError")
        ELSE Returned([status |-> "success",
                       search_results |->
                           Take(data.fields["organic_results"].items, OrganicLimit)])
    ELSE Returned([status |-> "error",
                   error_message |-> [text |-> "Could not find airport code for",
                                      city_name |-> city_name]])

\* the save moved out of the branches: every result is saved
SavesAirportResult_Always(result) == TRUE

\* lines 60, 69: `tool_context.state["last_airport_code"] = result` runs in
\* the two success branches only
SavesAirportResult(result) == result.status = "success"

AirportTimedOut ==
    [status |-> "error",
     error_message |-> [text |-> "Airport code search request timed out."]]

AirportRequestError(e) ==
    [status |-> "error",
     error_message |-> [text |-> "Error during airport code search request:",
                        exception |-> e]]

AirportUnexpected(e) ==
    [status |-> "error",
     error_message |-> [text |-> "An unexpected error occurred during airport code search:",
                        exception |-> e]]

\* lines 32-37: the history append
RecordAirportSearch(st, city_name) ==
    Put(st, "airport_searches",
        Append(Get(st, "airport_searches", <<>>), city_name))

\* lines 40-46: the query sent to the service
AirportQuery(key, city_name) ==
    [api_key |-> key, engine |-> "google", hl |-> "en", gl |-> "in",
     q |-> <<city_name, " airport IATA code">>]

\* lines 49-90: the request, the choice of result and the except clauses
AirportLookup(st, city_name, upstream) ==
    IF upstream.kind = "timeout" THEN
        Effect(st, Returned(AirportTimedOut), 1)
    ELSE IF upstream.kind = "connection_error" THEN
        Effect(st, Returned(AirportRequestError("ConnectionError")), 1)
    ELSE IF upstream.status_code >= 400 /\ upstream.status_code < 600 THEN
        \* response.raise_for_status()
        Effect(st, Returned(AirportRequestError("HTTPError")), 1)
    ELSE IF ~upstream.body.json THEN
        \* json.loads raises JSONDecodeError, caught by `except Exception`
        Effect(st, Returned(AirportUnexpected("JSONDecodeError")), 1)
    ELSE LET d == AirportDetails(upstream.body.data, city_name)
         IN  IF d.kind = "raised" THEN
                 Effect(st, Returned(AirportUnexpected(d.exception)), 1)
             ELSE IF SavesAirportResult(d.result) THEN
                 Effect(Put(st, "last_airport_code", d.result), d, 1)
             ELSE Effect(st, d, 1)

\* what the function has done when it is about to call requests.get
Requesting(st) == Effect(st, [kind |-> "requesting"], 0)

\* lines 26-48: up to the HTTP request
AirportPrelude(st, key, city_name) ==
    IF KeyMissing(key) THEN Effect(st, Returned(MissingKey), 0)
    ELSE Requesting(RecordAirportSearch(st, city_name))

----------------------------------------------------------------------------
(* tools/get_flight_prices.py *)

FlightError(text) == [status |-> "error", error_message |-> [text |-> text]]

\* lines 65-66, 71-72: code and len(code) == 3 and code.isalpha()
ValidAirportCode(code) ==
    /\ Truthy(code)
    /\ Len(code) = 3
    /\ \A i \in 1..Len(code) : code[i] \in UpperCase \cup LowerCase

\* line 58: `if return_date and not validate_date_format(return_date)`
ReturnDateRejected(return_date) ==
    Truthy(return_date) /\ ~validate_date_format(return_date)

\* the airport codes checked before the dates
Validation_CodesFirst(departure_id, arrival_id, outbound_date, return_date) ==
    IF ~ValidAirportCode(departure_id) THEN
        [ok |-> FALSE,
         result |-> [status |-> "error",
                     error_message |-> [text |-> "Invalid departure airport code",
                                        departure_id |-> departure_id]]]
    ELSE IF ~ValidAirportCode(arrival_id) THEN
        [ok |-> FALSE,
         result |-> [status |-> "error",
                     error_message |-> [text |-> "Invalid arrival airport code",
                                        arrival_id |-> arrival_id]]]
    ELSE IF ~validate_date_format(outbound_date) THEN
        [ok |-> FALSE,
         result |-> [status |-> "error",
                     error_message |-> [text |-> "Invalid outbound date format",
                                        outbound_date |-> outbound_date]]]
    ELSE IF ReturnDateRejected(return_date) THEN
        [ok |-> FALSE,
         result |-> [status |-> "error",
                     error_message |-> [text |-> "Invalid return date format",
                                        return_date |-> return_date]]]
    ELSE [ok |-> TRUE]

\* lines 51-75: the first failing check, as the result it returns; "ok" when
\* every check passes
Validation(departure_id, arrival_id, outbound_date, return_date) ==
    IF ~validate_date_format(outbound_date) THEN
        [ok |-> FALSE,
         result |-> [status |-> "error",
                     error_message |-> [text |-> "Invalid outbound date format",
                                        outbound_date |-> outbound_date]]]
    ELSE IF ReturnDateRejected(return_date) THEN
        [ok |-> FALSE,
         result |-> [status |-> "error",
                     error_message |-> [text |-> "Invalid return date format",
                                        return_date |-> return_date]]]
    ELSE IF ~ValidAirportCode(departure_id) THEN
        [ok |-> FALSE,
         result |-> [status |-> "error",
                     error_message |-> [text |-> "Invalid departure airport code",
                                        departure_id |-> departure_id]]]
    ELSE IF ~ValidAirportCode(arrival_id) THEN
        [ok |-> FALSE,
         result |-> [status |-> "error",
                     error_message |-> [text |-> "Invalid arrival airport code",
                                        arrival_id |-> arrival_id]]]
    ELSE [ok |-> TRUE]

\* lines 89-94
TripType(return_date) == IF Truthy(return_date) THEN "round-trip" ELSE "one-way"

\* lines 78-94: the query sent to the service
FlightQuery(key, departure_id, arrival_id, outbound_date, return_date) ==
    LET common == [api_key |-> key, engine |-> "google_flights", hl |-> "en",
                   gl |-> "in", departure_id |-> Upper(departure_id),
                   arrival_id |-> Upper(arrival_id),
                   outbound_date |-> outbound_date, currency |-> "INR"]
    IN  IF Truthy(return_date)
        THEN [k \in DOMAIN common \cup {"return_date"} |->
                 IF k = "return_date" THEN return_date ELSE common[k]]
        ELSE [k \in DOMAIN common \cup {"type"} |->
                 IF k = "type" THEN <<"2">> ELSE common[k]]

\* the upper-cased codes of the query reported as the search parameters
SearchParams_UpperCased(departure_id, arrival_id, outbound_date, return_date) ==
    [from |-> Upper(departure_id), to |-> Upper(arrival_id),
     outbound_date |-> outbound_date,
     return_date |-> return_date, trip_type |-> TripType(return_date)]

\* lines 148-151, 157-160
SearchParams(departure_id, arrival_id, outbound_date, return_date) ==
    [from |-> departure_id, to |-> arrival_id, outbound_date |-> outbound_date,
     return_date |-> return_date, trip_type |-> TripType(return_date)]

\* lines 135-152: the no_results result; price_insights.get raises when
\* price_insights is no mapping
NoResults(price_insights, departure_id, arrival_id, outbound_date, return_date) ==
    IF JTruthy(price_insights) /\ ~HasGet(price_insights) THEN Raised("AttributeError")
    ELSE Returned(
        [status |-> "no_results",
         message |-> [text |-> "No flights found for",
                      from |-> departure_id, to |-> arrival_id,
                      on |-> outbound_date, returning |-> return_date,
                      price_insights |->
                          IF JTruthy(price_insights)
                          THEN <<JGet(price_insights, "lowest_price", JStr("N/A")),
                                 JGet(price_insights, "price_level", JStr("N/A"))>>
                          ELSE <<>>],
         flight_search_params |->
             SearchParams(departure_id, arrival_id, outbound_date, return_date)])

\* lines 154-165: the success result
ProcessedResults(flight_data, departure_id, arrival_id, outbound_date, return_date) ==
    [status |-> "success",
     flight_search_params |->
         SearchParams(departure_id, arrival_id, outbound_date, return_date),
     best_flights |-> JGet(flight_data, "best_flights", JArr(<<>>)),
     other_flights |-> JGet(flight_data, "other_flights", JArr(<<>>)),
     price_insights |-> JGet(flight_data, "price_insights", JNull)]

\* the generic `>= 400` test placed first
StatusError_GenericFirst(status_code) ==
    IF status_code >= 400 THEN
        Returned([status |-> "error",
                  error_message |-> [text |-> "Flight search failed with HTTP",
                                     status_code |-> status_code]])
    ELSE [kind |-> "none"]

\* lines 107-115: the HTTP status codes answered without reading the body
StatusError(status_code) ==
    IF status_code = 401 THEN
        Returned(FlightError("API Authentication Failed (401). Check SerpAPI key."))
    ELSE IF status_code = 429 THEN
        Returned(FlightError("API Rate Limit Exceeded (429). Try again later."))
    ELSE IF status_code >= 400 THEN
        Returned([status |-> "error",
                  error_message |-> [text |-> "Flight search failed with HTTP",
                                     status_code |-> status_code]])
    ELSE [kind |-> "none"]

\* lines 126-128: "error" in flight_data
HasErrorField(flight_data) == PyIn("error", flight_data)

\* line 135: `if not best_flights and not other_flights`
NoFlights(flight_data) ==
    /\ ~JTruthy(JGet(flight_data, "best_flights", JArr(<<>>)))
    /\ ~JTruthy(JGet(flight_data, "other_flights", JArr(<<>>)))

\* lines 126-170: the outcome for a parsed body, before the except clauses
Classify(flight_data, departure_id, arrival_id, outbound_date, return_date) ==
    IF HasErrorField(flight_data) THEN
        IF flight_data.t # "object" THEN Raised("TypeError")
        ELSE Returned([status |-> "error",
                       error_message |-> [text |-> "API Error:",
                                          error |-> flight_data.fields["error"]]])
    ELSE IF ~HasGet(flight_data) THEN Raised("AttributeError")
    ELSE IF NoFlights(flight_data) THEN
        NoResults(JGet(flight_data, "price_insights", JNull),
                  departure_id, arrival_id, outbound_date, return_date)
    ELSE Returned(ProcessedResults(flight_data, departure_id, arrival_id,
                                   outbound_date, return_date))

\* the save as the agent's state guide describes it: no_results is saved too
StoresResult_AlsoNoResults(result) == result.status \in {"success", "no_results"}

\* lines 167-168: `tool_context.state["last_flight_search"] = processed_results`
\* runs for a success result only
StoresResult(result) == result.status = "success"

\* lines 100-179: the request, the classification of the answer, the save on
\* success and the except clauses
FlightSearch(st, departure_id, arrival_id, outbound_date, return_date, upstream) ==
    IF upstream.kind = "timeout" THEN
        Effect(st, Returned(FlightError(
            "Flight search request timed out. Please try again later.")), 1)
    ELSE IF upstream.kind = "connection_error" THEN
        Effect(st, Returned([status |-> "error",
                             error_message |-> [text |-> "Network error during flight search:",
                                                exception |-> "ConnectionError"]]), 1)
    ELSE IF StatusError(upstream.status_code).kind = "returned" THEN
        Effect(st, StatusError(upstream.status_code), 1)
    ELSE IF ~upstream.body.json THEN
        Effect(st, Returned(FlightError(
            "Failed to parse API response. Service might be unavailable.")), 1)
    ELSE LET c == Classify(upstream.body.data, departure_id, arrival_id,
                           outbound_date, return_date)
         IN  IF c.kind = "raised" THEN
                 Effect(st, Returned([status |-> "error",
                                      error_message |-> [text |-> "An unexpected error occurred:",
                                                         exception |-> c.exception]]), 1)
             ELSE IF StoresResult(c.result) THEN
                 Effect(Put(st, "last_flight_search", c.result), c, 1)
             ELSE Effect(st, c, 1)

\* the append moved after the date check: only well-dated attempts recorded
RecordFlightSearch_ValidOnly(st, departure_id, arrival_id, outbound_date, return_date) ==
    IF ~validate_date_format(outbound_date) THEN st
    ELSE Put(st, "flight_searches",
             Append(Get(st, "flight_searches", <<>>),
                    [departure |-> departure_id, arrival |-> arrival_id,
                     outbound_date |-> outbound_date, return_date |-> return_date]))

\* lines 40-49: the history append
RecordFlightSearch(st, departure_id, arrival_id, outbound_date, return_date) ==
    Put(st, "flight_searches",
        Append(Get(st, "flight_searches", <<>>),
               [departure |-> departure_id, arrival |-> arrival_id,
                outbound_date |-> outbound_date, return_date |-> return_date]))

\* lines 51-75 run outside any try block: an exception raised there leaves
\* the function
ValidationRaises(departure_id, arrival_id, outbound_date, return_date) ==
    ValidateRaises(outbound_date)

\* lines 34-98: up to the HTTP request
FlightPrelude(st, key, departure_id, arrival_id, outbound_date, return_date) ==
    IF KeyMissing(key) THEN Effect(st, Returned(MissingKey), 0)
    ELSE LET st1 == RecordFlightSearch(st, departure_id, arrival_id,
                                       outbound_date, return_date)
         IN  IF ValidationRaises(departure_id, arrival_id, outbound_date, return_date)
             THEN Effect(st1, Raised("TypeError"), 0)
             ELSE LET v == Validation(departure_id, arrival_id,
                                      outbound_date, return_date)
                  IN  IF ~v.ok THEN Effect(st1, Returned(v.result), 0)
                      ELSE Requesting(st1)

----------------------------------------------------------------------------
(* The values the tools are invoked with, and what the service may answer *)

ApiKey == <<"k", "e", "y">>
ApiKeys == {None, <<>>, ApiKey}      \* unset, set to "", set

BLRX == <<"B", "L", "R", "X">>
blr == <<"b", "l", "r">>
DEL == <<"D", "E", "L">>
D1L == <<"D", "1", "L">>
DepartureIds == {blr, BLRX}
ArrivalIds == {DEL, D1L}

Dec25 == <<"2", "0", "2", "4", "-", "1", "2", "-", "2", "5">>    \* 2024-12-25
DayFirst == <<"2", "5", "-", "1", "2", "-", "2", "0", "2", "4">> \* 25-12-2024
Dec30 == <<"2", "0", "2", "4", "-", "1", "2", "-", "3", "0">>    \* 2024-12-30
Feb30 == <<"2", "0", "2", "3", "-", "0", "2", "-", "3", "0">>    \* 2023-02-30
OutboundDates == {Dec25, DayFirst}
ReturnDates == {None, <<>>, Dec30, Feb30}

CityNames == {"Bengaluru", "Delhi"}

Flight(n) == JObj([flight_number |-> n])
Insights == JObj([lowest_price |-> JStr("4200"), price_level |-> JStr("low")])

FlightBodies ==
    { NotJSON,
      Body(JArr(<<>>)),
      Body(JObj([error |-> JStr("Invalid API key"), best_flights |-> JArr(<<Flight(1)>>)])),
      Body(JObj(EmptyDict)),
      Body(JObj([best_flights |-> JArr(<<>>), other_flights |-> JArr(<<>>),
                 price_insights |-> Insights])),
      Body(JObj([best_flights |-> JArr(<<>>), other_flights |-> JArr(<<>>),
                 price_insights |-> JStr("unavailable")])),
      Body(JObj([best_flights |-> JArr(<<Flight(1)>>), other_flights |-> JArr(<<>>),
                 price_insights |-> Insights])),
      Body(JObj([other_flights |-> JArr(<<Flight(2)>>)])) }

FlightUpstream ==
    {Timeout, ConnectionError}
        \cup {Response(c, Body(JObj([error |-> JStr("rejected")]))) : c \in {400, 401, 429}}
        \cup {Response(200, b) : b \in FlightBodies}

Organic(n) == JArr([i \in 1..n |-> JObj([position |-> i])])
Graph == JObj([title |-> JStr("Kempegowda International Airport")])

AirportBodies ==
    { NotJSON,
      Body(JArr(<<JStr("knowledge_graph")>>)),
      Body(JObj(EmptyDict)),
      Body(JObj([knowledge_graph |-> Graph])),
      Body(JObj([knowledge_graph |-> Graph, organic_results |-> Organic(5)])),
      Body(JObj([organic_results |-> Organic(5)])),
      Body(JObj([organic_results |-> Organic(2)])) }

AirportUpstream ==
    {Timeout, ConnectionError, Response(404, NotJSON)}
        \cup {Response(200, b) : b \in AirportBodies}

NoRequest == [kind |-> "none"]

----------------------------------------------------------------------------
(* The session *)

Init ==
    /\ serp_api_key \in ApiKeys
    /\ state = EmptyDict
    /\ trace = <<>>

\* one invocation of get_flight_prices by the agent runtime; the service
\* answers only a request that was issued
InvokeFlightPrices(outbound_dates) ==
    /\ Len(trace) < MaxCalls
    /\ \E departure_id \in DepartureIds, arrival_id \in ArrivalIds,
          outbound_date \in outbound_dates, return_date \in ReturnDates :
          LET p == FlightPrelude(state, serp_api_key, departure_id, arrival_id,
                                 outbound_date, return_date)
          IN  \E upstream \in IF p.outcome.kind = "requesting"
                               THEN FlightUpstream ELSE {NoRequest} :
              LET e == IF upstream = NoRequest THEN p
                       ELSE FlightSearch(p.state, departure_id, arrival_id,
                                         outbound_date, return_date, upstream)
              IN  /\ state' = e.state
                  /\ trace' = Append(trace,
                         [tool |-> "get_flight_prices",
                          departure_id |-> departure_id, arrival_id |-> arrival_id,
                          outbound_date |-> outbound_date, return_date |-> return_date,
                          query |-> IF upstream = NoRequest THEN <<>>
                                    ELSE <<FlightQuery(serp_api_key, departure_id,
                                               arrival_id, outbound_date, return_date)>>,
                          upstream |-> upstream,
                          requests |-> e.requests,
                          outcome |-> e.outcome,
                          before |-> state])
    /\ UNCHANGED serp_api_key

\* one invocation of get_airport_code by the agent runtime
GetAirportCode ==
    /\ Len(trace) < MaxCalls
    /\ \E city_name \in CityNames :
          LET p == AirportPrelude(state, serp_api_key, city_name)
          IN  \E upstream \in IF p.outcome.kind = "requesting"
                               THEN AirportUpstream ELSE {NoRequest} :
              LET e == IF upstream = NoRequest THEN p
                       ELSE AirportLookup(p.state, city_name, upstream)
              IN  /\ state' = e.state
                  /\ trace' = Append(trace,
                         [tool |-> "get_airport_code",
                          city_name |-> city_name,
                          query |-> IF upstream = NoRequest THEN <<>>
                                    ELSE <<AirportQuery(serp_api_key, city_name)>>,
                          upstream |-> upstream,
                          requests |-> e.requests,
                          outcome |-> e.outcome,
                          before |-> state])
    /\ UNCHANGED serp_api_key

\* arguments of the declared types
GetFlightPrices == InvokeFlightPrices(OutboundDates)

\* arguments as the runtime may pass them: a missing outbound date is None
GetFlightPricesAnyInput == InvokeFlightPrices(OutboundDates \cup {None})

Next == GetFlightPrices \/ GetAirportCode

Spec == Init /\ [][Next]_vars

NextAnyInput == GetFlightPricesAnyInput \/ GetAirportCode

SpecAnyInput == Init /\ [][NextAnyInput]_vars

----------------------------------------------------------------------------
(* Reading the history *)

Calls == 1..Len(trace)
FlightCalls == {i \in Calls : trace[i].tool = "get_flight_prices"}
AirportCalls == {i \in Calls : trace[i].tool = "get_airport_code"}

\* the session state when call i returned
After(i) == IF i < Len(trace) THEN trace[i + 1].before ELSE state

ReturnedStatus(i, status) ==
    trace[i].outcome.kind = "returned" /\ trace[i].outcome.result.status = status

\* the entry call i is to leave in flight_searches
SearchEntry(i) ==
    [departure |-> trace[i].departure_id, arrival |-> trace[i].arrival_id,
     outbound_date |-> trace[i].outbound_date, return_date |-> trace[i].return_date]

\* the calls of one tool among the first n calls, oldest first
RECURSIVE FlightEntries(_)
FlightEntries(n) ==
    IF n = 0 THEN <<>>
    ELSE IF n \in FlightCalls THEN Append(FlightEntries(n - 1), SearchEntry(n))
    ELSE FlightEntries(n - 1)

RECURSIVE AirportEntries(_)
AirportEntries(n) ==
    IF n = 0 THEN <<>>
    ELSE IF n \in AirportCalls THEN Append(AirportEntries(n - 1), trace[n].city_name)
    ELSE AirportEntries(n - 1)

Unset == [status |-> "unset"]
FlightSearches(st) == Get(st, "flight_searches", <<>>)
AirportSearches(st) == Get(st, "airport_searches", <<>>)
LastFlightSearch(st) == Get(st, "last_flight_search", Unset)
LastAirportCode(st) == Get(st, "last_airport_code", Unset)

----------------------------------------------------------------------------
(* C1 *)

\* C1: with an API key configured, after every call (whatever its outcome)
\* flight_searches is exactly the list of the arguments of the
\* get_flight_prices calls made so far, in call order, and airport_searches
\* the list of the city names of the get_airport_code calls made so far: each
\* call appended one entry and no earlier entry was changed or removed.
C1_HistoryRecordsEveryCall ==
    Truthy(serp_api_key) =>
        \A i \in Calls :
            /\ FlightSearches(After(i)) = FlightEntries(i)
            /\ AirportSearches(After(i)) = AirportEntries(i)
            /\ i \in FlightCalls =>
                   FlightSearches(After(i)) =
                       Append(FlightSearches(trace[i].before), SearchEntry(i))
            /\ i \in AirportCalls =>
                   AirportSearches(After(i)) =
                       Append(AirportSearches(trace[i].before), trace[i].city_name)

\* a rejected search followed by a different, successful one, both recorded
C1_Witness ==
    /\ Len(trace) = 2
    /\ FlightCalls = {1, 2}
    /\ ReturnedStatus(1, "error") /\ trace[1].requests = 0
    /\ ReturnedStatus(2, "success")
    /\ SearchEntry(1) # SearchEntry(2)
    /\ FlightSearches(state) = <<SearchEntry(1), SearchEntry(2)>>

----------------------------------------------------------------------------
(* C2 *)

\* C2: without an API key every call of either tool returns the
\* missing-key error, issues no HTTP request and leaves the session state as
\* it was: no history entry, no last result.
C2_NoKeyNoEffect ==
    ~Truthy(serp_api_key) =>
        /\ \A i \in Calls :
               /\ trace[i].outcome.kind = "returned"
               /\ trace[i].outcome.result.status = "error"
               /\ trace[i].requests = 0
               /\ trace[i].upstream = NoRequest
               /\ After(i) = trace[i].before
        /\ DOMAIN state = {}

\* both tools called with the key set to the empty string
C2_Witness ==
    /\ serp_api_key = <<>>
    /\ Len(trace) = 2
    /\ FlightCalls # {} /\ AirportCalls # {}

----------------------------------------------------------------------------
(* C3 *)

\* the first check of call i that fails, in the order outbound date, return
\* date, departure code, arrival code; a return date counts as provided when
\* it is not None and, unless emptyIsProvided, not the empty string
FirstFailing(i, emptyIsProvided) ==
    LET c == trace[i]
        provided == c.return_date # None /\ (emptyIsProvided \/ c.return_date # <<>>)
    IN  IF ~validate_date_format(c.outbound_date) THEN "outbound_date"
        ELSE IF provided /\ ~validate_date_format(c.return_date) THEN "return_date"
        ELSE IF ~ValidAirportCode(c.departure_id) THEN "departure_id"
        ELSE IF ~ValidAirportCode(c.arrival_id) THEN "arrival_id"
        ELSE "none"

\* call i returned an error naming `field`, issued no request and changed
\* nothing but the one entry appended to flight_searches
RejectedFor(i, field) ==
    /\ ReturnedStatus(i, "error")
    /\ field \in DOMAIN trace[i].outcome.result.error_message
    /\ trace[i].outcome.result.error_message[field] = trace[i][field]
    /\ trace[i].requests = 0
    /\ trace[i].upstream = NoRequest
    /\ After(i) = Put(trace[i].before, "flight_searches",
                      Append(FlightSearches(trace[i].before), SearchEntry(i)))
    /\ LastFlightSearch(After(i)) = LastFlightSearch(trace[i].before)

ValidationOrder(emptyIsProvided) ==
    Truthy(serp_api_key) =>
        \A i \in FlightCalls :
            FirstFailing(i, emptyIsProvided) # "none" =>
                RejectedFor(i, FirstFailing(i, emptyIsProvided))

----------------------------------------------------------------------------
(* C4 *)

----------------------------------------------------------------------------
(* C5 *)

Max(S) == CHOOSE x \in S : \A y \in S : y <= x

\* C5: last_flight_search holds the result of the most recent
\* get_flight_prices call that ended in success or in no_results.
C5_LastFlightSearchTracksNoResults ==
    LET ended == {i \in FlightCalls :
                      ReturnedStatus(i, "success") \/ ReturnedStatus(i, "no_results")}
    IN  ended # {} =>
            /\ "last_flight_search" \in DOMAIN state
            /\ state["last_flight_search"] = trace[Max(ended)].outcome.result

----------------------------------------------------------------------------
(* C6 *)

\* the upstream answers the claim lists as failures of the airport lookup
AirportFailure(u) ==
    \/ u.kind \in {"timeout", "connection_error"}
    \/ u.kind = "response" /\
          \/ u.status_code >= 400
          \/ ~u.body.json
          \/ u.body.data.t # "object"
          \/ /\ "knowledge_graph" \notin DOMAIN u.body.data.fields
             /\ "organic_results" \notin DOMAIN u.body.data.fields

\* C6: a get_airport_code call changes last_airport_code exactly when it
\* returns status success, and then to the returned result; a response with
\* neither field, a timeout, a network or HTTP failure and an unexpected
\* failure give status error and leave it alone; so last_airport_code is
\* always the result of the most recent successful lookup.
C6_LastAirportCodeOnlyOnSuccess ==
    /\ \A i \in AirportCalls :
           /\ IF ReturnedStatus(i, "success")
              THEN /\ "last_airport_code" \in DOMAIN After(i)
                   /\ After(i)["last_airport_code"] = trace[i].outcome.result
              ELSE /\ ReturnedStatus(i, "error")
                   /\ LastAirportCode(After(i)) = LastAirportCode(trace[i].before)
                   /\ "last_airport_code" \in DOMAIN After(i)
                          <=> "last_airport_code" \in DOMAIN trace[i].before
           /\ AirportFailure(trace[i].upstream) => ReturnedStatus(i, "error")
    /\ LET found == {i \in AirportCalls : ReturnedStatus(i, "success")}
       IN  IF found = {} THEN "last_airport_code" \notin DOMAIN state
           ELSE state["last_airport_code"] = trace[Max(found)].outcome.result

\* a successful lookup, then one that times out and leaves its result stored
C6_Witness ==
    /\ Len(trace) = 2
    /\ AirportCalls = {1, 2}
    /\ ReturnedStatus(1, "success")
    /\ trace[2].upstream = Timeout /\ ReturnedStatus(2, "error")
    /\ LastAirportCode(state) = trace[1].outcome.result

----------------------------------------------------------------------------
(* C7 *)

HasField(data, key) == data.t = "object" /\ key \in DOMAIN data.fields

\* the calls whose response was received and parsed
ParsedAirportCalls ==
    {i \in AirportCalls :
        /\ trace[i].upstream.kind = "response"
        /\ trace[i].upstream.status_code < 400
        /\ trace[i].upstream.body.json}

\* C7: for a parsed response, a knowledge_graph field gives success with
\* that structure as airport_details, also when organic_results is present;
\* otherwise an organic_results list of n entries gives success with its
\* first min(3, n) entries, in order, as search_results; otherwise the
\* result is an error.
C7_AirportResultPrecedence ==
    \A i \in ParsedAirportCalls :
        LET data == trace[i].upstream.body.data
            out == trace[i].outcome
        IN  /\ out.kind = "returned"
            /\ IF HasField(data, "knowledge_graph") THEN
                   out.result = [status |-> "success",
                                 airport_details |-> data.fields["knowledge_graph"]]
               ELSE IF HasField(data, "organic_results") THEN
                   LET list == data.fields["organic_results"].items
                       n == Len(list)
                       kept == IF n < 3 THEN n ELSE 3
                   IN  /\ DOMAIN out.result = {"status", "search_results"}
                       /\ out.result.status = "success"
                       /\ Len(out.result.search_results) = kept
                       /\ \A k \in 1..kept : out.result.search_results[k] = list[k]
               ELSE out.result.status = "error"

\* the knowledge graph wins over five organic results; five organic results
\* alone are cut to three
C7_Witness ==
    /\ Len(trace) = 2
    /\ AirportCalls = {1, 2}
    /\ trace[1].upstream =
           Response(200, Body(JObj([knowledge_graph |-> Graph,
                                    organic_results |-> Organic(5)])))
    /\ ReturnedStatus(1, "success")
    /\ trace[1].outcome.result.airport_details = Graph
    /\ trace[2].upstream = Response(200, Body(JObj([organic_results |-> Organic(5)])))
    /\ ReturnedStatus(2, "success")
    /\ Len(trace[2].outcome.result.search_results) = 3

----------------------------------------------------------------------------
(* C8 *)

\* C8: every call of either tool ends by returning a result whose status is
\* success, error or no_results (flight lookup) or success or error (airport
\* lookup); no exception leaves the function, whatever the arguments.
C8_NoExceptionEscapes ==
    \A i \in Calls :
        /\ trace[i].outcome.kind = "returned"
        /\ trace[i].outcome.result.status \in
               IF i \in FlightCalls THEN {"success", "error", "no_results"}
               ELSE {"success", "error"}

----------------------------------------------------------------------------
(* C9 *)

EmptyOrAbsent(data, key) ==
    ~HasField(data, key) \/ ~JTruthy(data.fields[key])

ErrorWith(result, text) ==
    result.status = "error" /\ result.error_message.text = text

\* the classification of the response to call i; with shapes, a body or a
\* price_insights of unexpected shape is an error of its own
Classified(i, shapes) ==
    LET u == trace[i].upstream
        r == trace[i].outcome.result
        data == u.body.data
        unexpected == "An unexpected error occurred:"
    IN  /\ trace[i].outcome.kind = "returned"
        /\ IF u.status_code = 401 THEN
               ErrorWith(r, "API Authentication Failed (401). Check SerpAPI key.")
           ELSE IF u.status_code = 429 THEN
               ErrorWith(r, "API Rate Limit Exceeded (429). Try again later.")
           ELSE IF u.status_code >= 400 THEN
               ErrorWith(r, "Flight search failed with HTTP")
           ELSE IF ~u.body.json THEN
               ErrorWith(r, "Failed to parse API response. Service might be unavailable.")
           ELSE IF shapes /\ data.t # "object" THEN
               ErrorWith(r, unexpected)
           ELSE IF HasField(data, "error") THEN
               ErrorWith(r, "API Error:") /\ r.error_message.error = data.fields["error"]
           ELSE IF EmptyOrAbsent(data, "best_flights")
                     /\ EmptyOrAbsent(data, "other_flights") THEN
               IF /\ shapes
                  /\ ~EmptyOrAbsent(data, "price_insights")
                  /\ data.fields["price_insights"].t # "object"
               THEN ErrorWith(r, unexpected)
               ELSE r.status = "no_results"
           ELSE /\ r.status = "success"
                /\ r.best_flights = JGet(data, "best_flights", JArr(<<>>))
                /\ r.other_flights = JGet(data, "other_flights", JArr(<<>>))
                /\ r.price_insights = JGet(data, "price_insights", JNull)

RespondedFlightCalls == {i \in FlightCalls : trace[i].upstream.kind = "response"}

\* a call that passed validation issues one request, any call at most one
NoRetry ==
    \A i \in FlightCalls :
        /\ trace[i].requests <= 1
        /\ trace[i].upstream # NoRequest => trace[i].requests = 1

\* C9 as stated: 401, then 429, then any status >= 400, then an unparsable
\* body, then a body with an error field, then no flights in either list
\* (no_results), otherwise success with both lists and price_insights; one
\* request per call.
C9_AsStated ==
    NoRetry /\ \A i \in RespondedFlightCalls : Classified(i, FALSE)

\* C9 amended: the same precedence, with two more error cases: a JSON body
\* that is not an object is an "unexpected error" (checked before the error
\* field), and when neither list has a flight a non-empty price_insights
\* that is not an object is an "unexpected error" instead of no_results.
C9_ResponsePrecedence ==
    NoRetry /\ \A i \in RespondedFlightCalls : Classified(i, TRUE)

\* an error field beside a flight is reported as the API error, and a 429
\* as the rate limit
C9_Witness ==
    /\ Len(trace) = 2
    /\ FlightCalls = {1, 2}
    /\ trace[1].upstream.kind = "response"
    /\ trace[1].upstream.status_code = 200
    /\ trace[1].upstream.body.json
    /\ HasField(trace[1].upstream.body.data, "error")
    /\ HasField(trace[1].upstream.body.data, "best_flights")
    /\ ErrorWith(trace[1].outcome.result, "API Error:")
    /\ trace[2].upstream.kind = "response"
    /\ trace[2].upstream.status_code = 429
    /\ ErrorWith(trace[2].outcome.result,
                 "API Rate Limit Exceeded (429). Try again later.")
    /\ trace[2].requests = 1

----------------------------------------------------------------------------
(* C10 *)

SuccessfulFlightCalls == {i \in FlightCalls : ReturnedStatus(i, "success")}

====
